---- MODULE Spec2Model ----
(***************************************************************************)
(* A model of the cleanup scripts of this repository:                      *)
(*   cleanup/photosorter.py     date resolution, dated directories,        *)
(*                              collision-safe destination names           *)
(*   cleanup/organize_files.py  move_file_safely                           *)
(*   cleanup/string_replacer.py process_directory: bottom-up renaming      *)
(* Strings are sequences of one-character strings, so that formatting and  *)
(* parsing (strftime, strptime, Path.stem, Path.suffix, f-strings) are     *)
(* computed character by character.  A path is a sequence of components.   *)
(***************************************************************************)
EXTENDS Integers, Sequences, FiniteSets, TLC

VARIABLES
    prog,            \* which script the behaviour is a run of
    tree0,           \* history: dirs and files as they were before the run
    dfile,           \* resolveDate: the file handed to get_photo_date
    dres,            \* resolveDate: what get_photo_date did with it
    args,            \* the run's arguments: copy_files, dry_run
    locking,         \* whether callers take the per-directory lock of spec section 5
    srcExists,       \* source_path.exists()
    dirs,            \* the directories that exist (paths)
    files,           \* the non-directories that exist: path -> content, a
                     \* content being named by the file's first path
    removed,         \* source files moved away from the source tree
    lock,            \* the directory locks held: <<directory, process>>
    quota,           \* how many files the source tree yields to each run
    loc,             \* each run's position and local variables
    stats,           \* each run's stats dictionary
    routed,          \* history: every transfer done, [source, dest]
    unsupported,     \* history: how many unsupported files each run has met
    decided,         \* history: every routing decision made, with the file
                     \* and the names its destination directory held
    sr               \* string_replacer: arguments, locals and statistics of
                     \* process_directory, and the files' texts

dateVars == <<dfile, dres>>
fsVars == <<dirs, files, removed>>
runVars == <<args, locking, srcExists, lock, quota, loc, stats, routed, unsupported,
             decided>>
vars == <<prog, tree0, dfile, dres, args, locking, srcExists, dirs, files, removed, lock,
          quota, loc, stats, routed, unsupported, decided, sr>>

----------------------------------------------------------------------------
(* Characters and decimal formatting                                       *)

DigitChars == <<"0", "1", "2", "3", "4", "5", "6", "7", "8", "9">>

\* str(d) for one decimal digit d
Digit(d) == DigitChars[d + 1]

IsDigit(c) == \E d \in 0..9 : Digit(d) = c

\* int(c) for a digit character c
DigitVal(c) == CHOOSE d \in 0..9 : Digit(d) = c

\* f"{n}" for an int n >= 0: decimal, no padding
RECURSIVE Dec(_)
Dec(n) == IF n < 10 THEN <<Digit(n)>> ELSE Dec(n \div 10) \o <<Digit(n % 10)>>

\* no zero padding
Pad2Plain(n) == Dec(n)

\* strftime("%m"), strftime("%d"): two digits, zero padded
Pad2(n) == <<Digit((n \div 10) % 10), Digit(n % 10)>>

\* strftime("%Y") for the years the model uses (1000..9999): four digits
Pad4(n) == <<Digit((n \div 1000) % 10), Digit((n \div 100) % 10)>> \o Pad2(n)

----------------------------------------------------------------------------
(* datetime.strptime(value, "%Y:%m:%d %H:%M:%S")                           *)

IsLeap(y) == (y % 4 = 0 /\ y % 100 # 0) \/ y % 400 = 0

DaysInMonth(y, m) ==
    IF m = 2 THEN (IF IsLeap(y) THEN 29 ELSE 28)
    ELSE IF m \in {4, 6, 9, 11} THEN 30 ELSE 31

\* the number written by the digits s[i..j]
RECURSIVE Num(_, _, _)
Num(s, i, j) == IF j < i THEN 0 ELSE 10 * Num(s, i, j - 1) + DigitVal(s[j])

\* the fixed-width shape YYYY:MM:DD HH:MM:SS
Shaped(s) ==
    /\ Len(s) = 19
    /\ s[5] = ":" /\ s[8] = ":" /\ s[11] = " " /\ s[14] = ":" /\ s[17] = ":"
    /\ \A i \in (1..19) \ {5, 8, 11, 14, 17} : IsDigit(s[i])

Fields(s) ==
    [y |-> Num(s, 1, 4), mo |-> Num(s, 6, 7), d |-> Num(s, 9, 10),
     h |-> Num(s, 12, 13), mi |-> Num(s, 15, 16), s |-> Num(s, 18, 19)]

\* the datetime constructor's range checks
ValidDate(t) ==
    /\ t.y \in 1..9999
    /\ t.mo \in 1..12
    /\ t.d \in 1..DaysInMonth(t.y, t.mo)
    /\ t.h \in 0..23 /\ t.mi \in 0..59 /\ t.s \in 0..59

\* strptime raises ValueError (TypeError for a non-string) unless:
Parseable(s) == Shaped(s) /\ ValidDate(Fields(s))

strptime(s) == Fields(s)

----------------------------------------------------------------------------
(* Embedded metadata as the two readers see it                             *)

NoVal == <<>>          \* the field is not in the file

V_2023 ==
    <<"2","0","2","3",":","1","1",":","0","5"," ","0","8",":","3","0",":","0","0">>
V_2024 ==
    <<"2","0","2","4",":","0","3",":","0","7"," ","1","0",":","0","0",":","0","0">>
\* what cameras with an unset clock write
V_Zero ==
    <<"0","0","0","0",":","0","0",":","0","0"," ","0","0",":","0","0",":","0","0">>
\* 30 February
V_Feb30 ==
    <<"2","0","2","3",":","0","2",":","3","0"," ","0","8",":","3","0",":","0","0">>
\* ISO separators
V_Iso ==
    <<"2","0","2","3","-","1","1","-","0","5"," ","0","8",":","3","0",":","0","0">>

FieldValues == {NoVal, V_2023, V_2024, V_Zero, V_Feb30, V_Iso}

D_2023 == [y |-> 2023, mo |-> 11, d |-> 5, h |-> 8, mi |-> 30, s |-> 0]
D_2024 == [y |-> 2024, mo |-> 3, d |-> 7, h |-> 10, mi |-> 0, s |-> 0]
D_1999 == [y |-> 1999, mo |-> 12, d |-> 31, h |-> 23, mi |-> 59, s |-> 59]

NoDate == [y |-> 0, mo |-> 0, d |-> 0, h |-> 0, mi |-> 0, s |-> 0]

\* A file as far as date resolution reads it:
\*   pil     "ok": Image.open and _getexif give a non-empty dict;
\*           "noexif": _getexif gives None or {}; "error": PIL raises
\*   first   the date field the PIL dict enumerates first
\*   er      "ok": exifread.process_file gives the tags; "error": it raises
\*   dto, dt the DateTimeOriginal and DateTime values (NoVal: absent)
\*   mtime   os.path.getmtime: ok = FALSE when it raises OSError
Metas ==
    [pil : {"ok", "noexif", "error"}, first : {"DateTimeOriginal", "DateTime"},
     er : {"ok", "error"}, dto : FieldValues, dt : FieldValues,
     mtime : [ok : BOOLEAN, date : {D_1999}] \cup [ok : {TRUE}, date : {D_2024}]]

\* img._getexif().items(), as (tag name, value) pairs in enumeration order;
\* tags other than the two date tags are skipped by the loop and left out
ExifItems(f) ==
    LET o == IF f.dto = NoVal THEN <<>> ELSE <<<<"DateTimeOriginal", f.dto>>>>
        g == IF f.dt = NoVal THEN <<>> ELSE <<<<"DateTime", f.dt>>>>
    IN  IF f.first = "DateTimeOriginal" THEN o \o g ELSE g \o o

Returned(v) == [kind |-> "return", val |-> v]
Raised == [kind |-> "raise", val |-> NoDate]
Nothing == [kind |-> "none", val |-> NoDate]

\* photosorter.py 24-32: the body of the first try block
PilMethod(f) ==
    IF f.pil = "error" THEN Raised
    ELSE IF f.pil = "noexif" \/ ExifItems(f) = <<>> THEN Nothing
    ELSE LET item == ExifItems(f)[1]
         IN  IF Parseable(item[2]) THEN Returned(strptime(item[2])) ELSE Raised

\* photosorter.py 38-49: the body of the second try block
ExifreadMethod(f) ==
    IF f.er = "error" THEN Raised
    ELSE IF f.dto # NoVal
         THEN (IF Parseable(f.dto) THEN Returned(strptime(f.dto)) ELSE Raised)
    ELSE IF f.dt # NoVal
         THEN (IF Parseable(f.dt) THEN Returned(strptime(f.dt)) ELSE Raised)
    ELSE Nothing

\* no except clause: the exception leaves get_exif_date
SwallowNothing(r) == r

\* try: ... except Exception: pass
Swallow(r) == IF r.kind = "raise" THEN Nothing ELSE r

get_exif_date(f) ==
    LET r1 == Swallow(PilMethod(f))
    IN  IF r1.kind = "return" THEN r1
        ELSE IF r1.kind = "raise" THEN r1
        ELSE Swallow(ExifreadMethod(f))

get_file_date(f) == IF f.mtime.ok THEN Returned(f.mtime.date) ELSE Raised

\* (kind, date, source): kind "raise" when the call raises
get_photo_date(f) ==
    LET e == get_exif_date(f)
    IN  IF e.kind = "raise" THEN [kind |-> "raise", date |-> NoDate, source |-> "metadata"]
        ELSE IF e.kind = "return"
             THEN [kind |-> "return", date |-> e.val, source |-> "EXIF"]
        ELSE LET m == get_file_date(f)
             IN  IF m.kind = "return"
                 THEN [kind |-> "return", date |-> m.val, source |-> "File Modified"]
                 ELSE [kind |-> "raise", date |-> NoDate, source |-> "mtime"]


\* get_photo_date has not been called
NoRes == [kind |-> "pending", date |-> NoDate, source |-> ""]

----------------------------------------------------------------------------
(* File names: Path.stem, Path.suffix                                      *)

S_photo == <<"p","h","o","t","o">>
S_jpg == <<".","j","p","g">>
N_photo == S_photo \o S_jpg
N_img == <<"I","M","G","_","0","1",".","J","P","G">>
N_notes == <<"n","o","t","e","s",".","t","x","t">>
N_dscf == <<"D","S","C","F",".","R","A","F">>

\* name.rfind('.'): the last position of a dot, 0 when there is none
RECURSIVE RFindDot(_, _)
RFindDot(name, i) ==
    IF i = 0 THEN 0 ELSE IF name[i] = "." THEN i ELSE RFindDot(name, i - 1)

\* PurePath.suffix: from the last dot on, unless the dot is first or last
Suffix(name) ==
    LET i == RFindDot(name, Len(name))
    IN  IF 1 < i /\ i < Len(name) THEN SubSeq(name, i, Len(name)) ELSE <<>>

\* PurePath.stem
Stem(name) ==
    LET i == RFindDot(name, Len(name))
    IN  IF 1 < i /\ i < Len(name) THEN SubSeq(name, 1, i - 1) ELSE name

\* the extension forgotten
SuffixedNoExt(stem, counter, ext) == stem \o <<"_">> \o Dec(counter)

\* f"{original_name}_{counter}{extension}"
Suffixed(stem, counter, ext) == stem \o <<"_">> \o Dec(counter) \o ext

supported_extensions ==
    {<<".","j","p","g">>, <<".","j","p","e","g">>, <<".","r","a","f">>,
     <<".","J","P","G">>, <<".","J","P","E","G">>, <<".","R","A","F">>}

is_supported_format(name) == Suffix(name) \in supported_extensions

----------------------------------------------------------------------------
(* The filesystem                                                          *)

Root == << <<"o","u","t">> >>

\* every non-empty prefix of a path
Prefixes(path) == {SubSeq(path, 1, i) : i \in 1..Len(path)}

\* Path.exists()
Exists(path) == path \in dirs \/ path \in DOMAIN files

\* mkdir(parents=True) without exist_ok
MkdirRaisesIfThere(path) ==
    path \in dirs \/ \E q \in Prefixes(path) : q \in DOMAIN files

\* Path.mkdir(parents=True, exist_ok=True) raises FileExistsError or
\* NotADirectoryError when the path or one of its parents is a non-directory
MkdirRaises(path) == \E q \in Prefixes(path) : q \in DOMAIN files

\* ... and otherwise leaves the path and its parents existing as directories
MkdirP(path) == dirs \cup Prefixes(path)

\* create_date_path's path: Path(base_dir) / year / month / day
DatePath(base_dir, date_obj) ==
    base_dir \o <<Pad4(date_obj.y), Pad2(date_obj.mo), Pad2(date_obj.d)>>

\* f with x |-> v added or replaced
Put(f, x, v) == [y \in DOMAIN f \cup {x} |-> IF y = x THEN v ELSE f[y]]

NoFiles == [x \in {} |-> <<>>]

----------------------------------------------------------------------------
(* photosorter.organize_photos                                             *)

Procs == {1, 2}

MaxFiles == 2            \* files one sequential run finds in the source tree
CollisionBound == 2      \* the spec's probing bound N, scaled down

M_exif(v) ==
    [pil |-> "ok", first |-> "DateTimeOriginal", er |-> "ok", dto |-> v,
     dt |-> NoVal, mtime |-> [ok |-> TRUE, date |-> D_1999]]
M_raf(v) ==
    [pil |-> "error", first |-> "DateTimeOriginal", er |-> "ok", dto |-> v,
     dt |-> NoVal, mtime |-> [ok |-> TRUE, date |-> D_1999]]
M_plain(okay, d) ==
    [pil |-> "noexif", first |-> "DateTimeOriginal", er |-> "ok", dto |-> NoVal,
     dt |-> NoVal, mtime |-> [ok |-> okay, date |-> d]]

\* the files source_path.rglob('*') may yield
Kinds ==
    {[name |-> N_photo, meta |-> M_exif(V_2024)],
     [name |-> N_photo, meta |-> M_plain(TRUE, D_2024)],
     [name |-> N_photo, meta |-> M_plain(FALSE, D_1999)],
     [name |-> N_img, meta |-> M_exif(V_2023)],
     [name |-> N_dscf, meta |-> M_raf(V_2024)],
     [name |-> N_notes, meta |-> M_plain(TRUE, D_2024)]}

NoFile == [name |-> <<>>, meta |-> M_plain(TRUE, D_1999)]

\* a run's locals between two files; err is how the last file ended
Idle(pc, err) ==
    [pc |-> pc, cur |-> NoFile, source |-> <<>>, photo_date |-> NoDate,
     date_source |-> "", date_folder |-> <<>>, dest_file_path |-> <<>>,
     counter |-> 0, err |-> err, pending |-> {}, category |-> <<>>]

NoStats ==
    [total_files |-> 0, processed |-> 0, skipped |-> 0, exif_used |-> 0,
     file_date_used |-> 0, errors |-> 0, moved_count |-> 0, failed_count |-> 0]

\* where the n-th file a run finds lies: source/<run>/<n>/<name>
SourcePath(p, n, name) == <<<<"i","n">>, Dec(p), Dec(n), name>>

Bump(st, key) == [st EXCEPT ![key] = @ + 1]

\* the lock of spec section 5: one per destination directory
LockFree(p, dir) == locking => \A q \in Procs \ {p} : <<dir, q>> \notin lock
Acquire(p, dir) == IF locking THEN lock \cup {<<dir, p>>} ELSE lock
Release(p) == {l \in lock : l[2] # p}

\* photosorter.py 107-115
Start(p) ==
    /\ prog = "photosorter"
    /\ loc[p].pc = "start"
    /\ IF ~srcExists
       THEN /\ loc' = [loc EXCEPT ![p].pc = "returned"]
            /\ UNCHANGED dirs
       ELSE IF MkdirRaises(Root)
       THEN /\ loc' = [loc EXCEPT ![p].pc = "crashed"]
            /\ UNCHANGED dirs
       ELSE /\ loc' = [loc EXCEPT ![p].pc = "loop"]
            /\ dirs' = MkdirP(Root)
    /\ UNCHANGED <<prog, sr, tree0, dateVars, args, locking, srcExists, files, removed, lock,
                   quota, stats, routed,
                   unsupported, decided>>

\* photosorter.py 134-140: the next file of rglob
NextFile(p) ==
    /\ prog = "photosorter"
    /\ loc[p].pc = "loop"
    /\ stats[p].total_files < quota[p]
    /\ \E k \in Kinds :
         /\ stats' = [stats EXCEPT ![p] = Bump(@, "total_files")]
         /\ loc' = [loc EXCEPT ![p] =
                IF is_supported_format(k.name)
                THEN [Idle("date", "") EXCEPT !.cur = k,
                         !.source = SourcePath(p, stats[p].total_files + 1, k.name)]
                ELSE Idle("loop", "")]
         /\ unsupported' = [unsupported EXCEPT ![p] =
                IF is_supported_format(k.name) THEN @ ELSE @ + 1]
    /\ UNCHANGED <<prog, sr, tree0, dateVars, args, locking, srcExists, fsVars, lock, quota,
                   routed, decided>>

\* photosorter.py 182-190: rglob is exhausted, the summary is printed
Finish(p) ==
    /\ prog = "photosorter"
    /\ loc[p].pc = "loop"
    /\ loc' = [loc EXCEPT ![p].pc = "done"]
    /\ UNCHANGED <<prog, sr, tree0, dateVars, args, locking, srcExists, fsVars, lock, quota,
                   stats, routed,
                   unsupported, decided>>

\* no except clause: the exception ends the run
ExceptAborts(p, what) ==
    /\ loc' = [loc EXCEPT ![p] = Idle("crashed", what)]
    /\ lock' = Release(p)
    /\ UNCHANGED stats

\* except: pass, the error is not counted
ExceptUncounted(p, what) ==
    /\ loc' = [loc EXCEPT ![p] = Idle("loop", what)]
    /\ lock' = Release(p)
    /\ UNCHANGED stats

\* photosorter.py 178-180: except Exception
Except(p, what) ==
    /\ loc' = [loc EXCEPT ![p] = Idle("loop", what)]
    /\ stats' = [stats EXCEPT ![p] = Bump(@, "errors")]
    /\ lock' = Release(p)

\* photosorter.py 144-150
GetDate(p) ==
    /\ prog = "photosorter"
    /\ loc[p].pc = "date"
    /\ LET r == get_photo_date(loc[p].cur.meta)
       IN  IF r.kind = "raise"
           THEN Except(p, r.source)
           ELSE /\ loc' = [loc EXCEPT ![p].pc = "mkdir", ![p].photo_date = r.date,
                              ![p].date_source = r.source]
                /\ stats' = [stats EXCEPT ![p] =
                       Bump(@, IF r.source = "EXIF" THEN "exif_used"
                               ELSE "file_date_used")]
                /\ UNCHANGED lock
    /\ UNCHANGED <<prog, sr, tree0, dateVars, args, locking, srcExists, fsVars, quota, routed,
                   unsupported, decided>>

\* the counter is set once, before the loop over the files, and goes on
\* counting from file to file
FirstCounterCarried(p) == stats[p].total_files

\* photosorter.py 157: counter = 1, for every file anew
FirstCounter(p) == 1

\* photosorter.py 77-88 and 153-159; denied: the creation fails (permissions)
CreateDatePath(p) ==
    /\ prog = "photosorter"
    /\ loc[p].pc = "mkdir"
    /\ LET date_path == DatePath(Root, loc[p].photo_date)
       IN  \E denied \in {FALSE} \cup {d \in {TRUE} : date_path \notin dirs} :
             IF MkdirRaises(date_path) \/ denied
             THEN /\ Except(p, "mkdir")
                  /\ UNCHANGED dirs
             ELSE /\ dirs' = MkdirP(date_path)
                  /\ loc' = [loc EXCEPT ![p].pc = "probe",
                                ![p].date_folder = date_path,
                                ![p].dest_file_path = date_path \o <<loc[p].cur.name>>,
                                ![p].counter = FirstCounter(p)]
                  /\ UNCHANGED <<stats, lock>>
    /\ UNCHANGED <<prog, sr, tree0, dateVars, args, locking, srcExists, files, removed, quota,
                   routed,
                   unsupported, decided>>

\* counter += 1 forgotten
NextCounterStuck(counter) == counter

\* photosorter.py 163, organize_files.py 125: counter += 1
NextCounter(counter) == counter + 1

\* the test left out
LoopTestNever(path) == FALSE

\* is_file() in place of exists()
LoopTestFilesOnly(path) == path \in DOMAIN files

\* photosorter.py 160: the loop's test
LoopTest(path) == Exists(path)

\* the names a directory holds
Taken(dir) ==
    {x \in DOMAIN files \cup dirs : Len(x) = Len(dir) + 1 /\ SubSeq(x, 1, Len(dir)) = dir}

\* what the end of the while loop has settled for the file at hand
Decision(p) ==
    [file |-> loc[p].cur, taken |-> Taken(loc[p].date_folder),
     dest |-> loc[p].dest_file_path, date_source |-> loc[p].date_source]

\* photosorter.py 160-163: one test of the while loop, and its body
Probe(p) ==
    /\ prog = "photosorter"
    /\ loc[p].pc = "probe"
    /\ LockFree(p, loc[p].date_folder)
    /\ \E denied \in BOOLEAN :
         IF denied
         THEN /\ Except(p, "exists")
              /\ UNCHANGED decided
         ELSE /\ lock' = Acquire(p, loc[p].date_folder)
              /\ UNCHANGED stats
              /\ IF LoopTest(loc[p].dest_file_path)
                 THEN loc' = [loc EXCEPT
                        ![p].dest_file_path = loc[p].date_folder \o
                            <<Suffixed(Stem(loc[p].cur.name), loc[p].counter,
                                       Suffix(loc[p].cur.name))>>,
                        ![p].counter = NextCounter(@)]
                 ELSE loc' = [loc EXCEPT ![p].pc = "transfer"]
              /\ decided' = IF LoopTest(loc[p].dest_file_path) THEN decided
                            ELSE decided \cup {Decision(p)}
    /\ UNCHANGED <<prog, sr, tree0, dateVars, args, locking, srcExists, fsVars, quota, routed,
                   unsupported>>

\* photosorter.py 166-176; denied: shutil raises
Transfer(p) ==
    /\ prog = "photosorter"
    /\ loc[p].pc = "transfer"
    /\ IF args.dry_run
       THEN /\ loc' = [loc EXCEPT ![p] = Idle("loop", "")]
            /\ stats' = [stats EXCEPT ![p] = Bump(@, "processed")]
            /\ lock' = Release(p)
            /\ UNCHANGED <<fsVars, routed>>
       ELSE \E denied \in BOOLEAN :
              IF denied
              THEN /\ Except(p, "transfer")
                   /\ UNCHANGED <<fsVars, routed>>
              ELSE /\ files' = Put(files, loc[p].dest_file_path, loc[p].source)
                   /\ removed' = IF args.copy_files THEN removed
                                 ELSE removed \cup {loc[p].source}
                   /\ routed' = routed \cup
                        {[source |-> loc[p].source, dest |-> loc[p].dest_file_path]}
                   /\ loc' = [loc EXCEPT ![p] = Idle("loop", "")]
                   /\ stats' = [stats EXCEPT ![p] = Bump(@, "processed")]
                   /\ lock' = Release(p)
                   /\ UNCHANGED dirs
    /\ UNCHANGED <<prog, sr, tree0, dateVars, args, locking, srcExists, quota,
                   unsupported, decided>>

organize_photos(p) ==
    \/ Start(p) \/ NextFile(p) \/ Finish(p) \/ GetDate(p)
    \/ CreateDatePath(p) \/ Probe(p) \/ Transfer(p)

----------------------------------------------------------------------------
(* organize_files.organize_folder and move_file_safely                     *)

UpperChars ==
    <<"A","B","C","D","E","F","G","H","I","J","K","L","M",
      "N","O","P","Q","R","S","T","U","V","W","X","Y","Z">>
LowerChars ==
    <<"a","b","c","d","e","f","g","h","i","j","k","l","m",
      "n","o","p","q","r","s","t","u","v","w","x","y","z">>

LowerChar(c) ==
    IF \E i \in 1..26 : UpperChars[i] = c
    THEN LowerChars[CHOOSE i \in 1..26 : UpperChars[i] = c]
    ELSE c

\* str.lower()
Lower(str) == [i \in 1..Len(str) |-> LowerChar(str[i])]

\* str.endswith(t)
EndsWith(str, t) ==
    Len(t) <= Len(str) /\ SubSeq(str, Len(str) - Len(t) + 1, Len(str)) = t

C_Images == <<"I","m","a","g","e","s">>
C_Documents == <<"D","o","c","u","m","e","n","t","s">>
C_Archives == <<"A","r","c","h","i","v","e","s">>
NoCategory == <<>>

\* the entries of FILE_TYPE_MAPPINGS the model's names reach, in its order
FILE_TYPE_MAPPINGS ==
    << <<C_Images, {<<".","j","p","g">>, <<".","j","p","e","g">>, <<".","p","n","g">>}>>,
       <<C_Documents, {<<".","p","d","f">>, <<".","t","x","t">>, <<".","m","d">>}>>,
       <<C_Archives, {<<".","z","i","p">>, <<".","g","z">>}>> >>

SKIP_FILES ==
    {<<".","d","s","_","s","t","o","r","e">>, <<"t","h","u","m","b","s",".","d","b">>}

get_file_category(name) ==
    LET extension == Lower(Suffix(name))
        hits == {i \in 1..Len(FILE_TYPE_MAPPINGS) :
                    extension \in FILE_TYPE_MAPPINGS[i][2]}
    IN  IF EndsWith(Lower(name), <<".","t","a","r",".","g","z">>) THEN C_Archives
        ELSE IF hits = {} THEN NoCategory
        ELSE FILE_TYPE_MAPPINGS[CHOOSE i \in hits : \A j \in hits : i <= j][1]

\* should_skip_file of an entry that is a file
should_skip_file(name) ==
    \/ Lower(name) \in SKIP_FILES
    \/ Lower(name)[1] = "." /\ Len(name) > 1

Base == << <<"d","l">> >>

N_hidden == <<".","a",".","j","p","g">>
N_readme == <<"R","E","A","D","M","E">>
N_thumbs == <<"T","h","u","m","b","s",".","d","b">>

\* the names the folder may hold
OrgNames == {N_photo, N_img, N_notes, N_hidden, N_readme, N_thumbs}

\* organize_files.py 136-185: scan, confirm, create the category folders
OrgScan(p) ==
    /\ prog = "organize_files"
    /\ loc[p].pc = "start"
    /\ LET found == {n \in OrgNames :
                        /\ Base \o <<n>> \in DOMAIN files
                        /\ ~should_skip_file(n)
                        /\ get_file_category(n) # NoCategory}
           missing == {Base \o <<get_file_category(n)>> : n \in found}
                        \ (dirs \cup DOMAIN files)
       IN  IF found = {}
           THEN /\ loc' = [loc EXCEPT ![p].pc = "returned"]
                /\ UNCHANGED dirs
           ELSE \E response \in BOOLEAN, denied \in BOOLEAN :
                  IF ~response
                  THEN /\ loc' = [loc EXCEPT ![p].pc = "cancelled"]
                       /\ UNCHANGED dirs
                  ELSE IF denied /\ missing # {}
                  THEN /\ loc' = [loc EXCEPT ![p].pc = "failed"]
                       /\ UNCHANGED dirs
                  ELSE /\ loc' = [loc EXCEPT ![p].pc = "o_call",
                                     ![p].pending = found]
                       /\ dirs' = dirs \cup missing
    /\ UNCHANGED <<prog, sr, tree0, dateVars, args, locking, srcExists, files, removed, lock,
                   quota, stats, routed,
                   unsupported, decided>>

\* organize_files.py 192-197 and 116-120: the next file and the entry of
\* move_file_safely; files of one category are moved together
OrgCall(p) ==
    /\ prog = "organize_files"
    /\ loc[p].pc = "o_call"
    /\ IF loc[p].pending = {}
       THEN loc' = [loc EXCEPT ![p].pc = "done"]
       ELSE \E n \in loc[p].pending :
              /\ \/ get_file_category(n) = loc[p].category
                 \/ \A m \in loc[p].pending : get_file_category(m) # loc[p].category
              /\ LET folder == Base \o <<get_file_category(n)>>
                     destination == folder \o <<n>>
                 IN  loc' = [loc EXCEPT
                        ![p].pc = IF Exists(destination) THEN "o_probe" ELSE "o_move",
                        ![p].cur = [name |-> n, meta |-> NoFile.meta],
                        ![p].source = Base \o <<n>>,
                        ![p].category = get_file_category(n),
                        ![p].date_folder = folder,
                        ![p].dest_file_path = destination,
                        ![p].counter = 1,
                        ![p].err = "",
                        ![p].pending = @ \ {n}]
    /\ UNCHANGED <<prog, sr, tree0, dateVars, args, locking, srcExists, fsVars, lock, quota,
                   stats, routed,
                   unsupported, decided>>

\* organize_files.py 122-125: one test of the while loop, and its body
OrgProbe(p) ==
    /\ prog = "organize_files"
    /\ loc[p].pc = "o_probe"
    /\ IF LoopTest(loc[p].dest_file_path)
       THEN loc' = [loc EXCEPT
              ![p].dest_file_path = loc[p].date_folder \o
                  <<Suffixed(Stem(loc[p].cur.name), loc[p].counter,
                             Suffix(loc[p].cur.name))>>,
              ![p].counter = NextCounter(@)]
       ELSE loc' = [loc EXCEPT ![p].pc = "o_move"]
    /\ UNCHANGED <<prog, sr, tree0, dateVars, args, locking, srcExists, fsVars, lock, quota,
                   stats, routed,
                   unsupported, decided>>

\* organize_files.py 127-132 and 199-203; denied: shutil.move raises
OrgMove(p) ==
    /\ prog = "organize_files"
    /\ loc[p].pc = "o_move"
    /\ \E denied \in BOOLEAN :
         IF denied
         THEN /\ stats' = [stats EXCEPT ![p] = Bump(@, "failed_count")]
              /\ loc' = [loc EXCEPT ![p].pc = "o_call", ![p].err = "move"]
              /\ UNCHANGED <<files, routed>>
         ELSE /\ stats' = [stats EXCEPT ![p] = Bump(@, "moved_count")]
              /\ loc' = [loc EXCEPT ![p].pc = "o_call", ![p].err = ""]
              /\ files' = Put([x \in DOMAIN files \ {loc[p].source} |-> files[x]],
                              loc[p].dest_file_path, files[loc[p].source])
              /\ routed' = routed \cup
                   {[source |-> loc[p].source, dest |-> loc[p].dest_file_path]}
    /\ UNCHANGED <<prog, sr, tree0, dateVars, args, locking, srcExists, dirs, removed, lock,
                   quota, unsupported, decided>>

organize_folder(p) == OrgScan(p) \/ OrgCall(p) \/ OrgProbe(p) \/ OrgMove(p)

----------------------------------------------------------------------------
(* string_replacer.process_directory                                       *)

N_a == <<"a">>
N_b == <<"b">>
N_ab == <<"a", "b">>

\* search_str in s, for a search string that is not empty
Contains(s, t) ==
    \E i \in 0..(Len(s) - Len(t)) : SubSeq(s, i + 1, i + Len(t)) = t

\* s.replace(t, r): every occurrence, from the left, not overlapping
RECURSIVE StrReplace(_, _, _)
StrReplace(s, t, r) ==
    IF Len(s) < Len(t) THEN s
    ELSE IF SubSeq(s, 1, Len(t)) = t
    THEN r \o StrReplace(SubSeq(s, Len(t) + 1, Len(s)), t, r)
    ELSE <<s[1]>> \o StrReplace(Tail(s), t, r)

\* string_replacer.py 73-77; None is <<>>, a name n is <<n>>
get_new_name(old_name, search_str, replace_str) ==
    IF Contains(old_name, search_str)
    THEN <<StrReplace(old_name, search_str, replace_str)>>
    ELSE <<>>

\* string_replacer.py 120, 134, 146: if new_name and new_name != path.name
ShouldRename(new_name, name) ==
    new_name # <<>> /\ new_name[1] # <<>> /\ new_name[1] # name

\* x is dir or lies below it
Under(x, dir) == Len(x) >= Len(dir) /\ SubSeq(x, 1, Len(dir)) = dir

\* where x lies once src is named dst
Moved(x, src, dst) == dst \o SubSeq(x, Len(src) + 1, Len(x))

\* the orders a directory listing may come in
Perms(S) ==
    {f \in [1..Cardinality(S) -> S] :
        \A i, j \in 1..Cardinality(S) : i # j => f[i] # f[j]}

RECURSIVE Walk(_)
RECURSIVE WalkAll(_)

\* the walks of the directories ds, one after the other
WalkAll(ds) ==
    IF ds = <<>> THEN {<<>>}
    ELSE {a \o b : a \in Walk(Head(ds)), b \in WalkAll(Tail(ds))}

\* os.walk(top, topdown=True): a directory comes before its sub-directories
WalkTopDown(top) ==
    UNION {{fs \o <<top>> \o a : a \in WalkAll(ds),
                                 fs \in Perms(Taken(top) \cap DOMAIN files)} :
           ds \in Perms(Taken(top) \cap dirs)}

\* string_replacer.py 96-105: what os.walk(top, topdown=False) makes the loop
\* append for top and everything below it, in any listing order
Walk(top) ==
    UNION {{a \o fs \o <<top>> : a \in WalkAll(ds),
                                 fs \in Perms(Taken(top) \cap DOMAIN files)} :
           ds \in Perms(Taken(top) \cap dirs)}

\* Path.rename(new_path) raises: os.rename never replaces a directory by a
\* file or a file by a directory; POSIX replaces a file by a file and an
\* empty directory by a directory, Windows replaces nothing
RenameRaises(path, new_path, posix) ==
    /\ Exists(new_path)
    /\ \/ ~posix
       \/ path \in DOMAIN files /\ new_path \in dirs
       \/ path \in dirs /\ new_path \in DOMAIN files
       \/ path \in dirs /\ new_path \in dirs /\ Taken(new_path) # {}

\* the tree once path.rename(new_path) is done
Renamed(path, new_path) ==
    LET fkeep == {x \in DOMAIN files : ~Under(x, path) /\ x # new_path}
        fmove == {x \in DOMAIN files : Under(x, path)}
    IN  [dirs |-> {x \in dirs : ~Under(x, path) /\ x # new_path}
                    \cup {Moved(x, path, new_path) : x \in {y \in dirs : Under(y, path)}},
         files |-> [y \in fkeep \cup {Moved(x, path, new_path) : x \in fmove} |->
                      IF \E x \in fmove : Moved(x, path, new_path) = y
                      THEN files[CHOOSE x \in fmove : Moved(x, path, new_path) = y]
                      ELSE files[y]]]

\* string_replacer.py 119-128, 133-140, 145-152: the renaming of one path
\* inside try/except; denied: the rename raises for another reason
\* (permissions)
RenameOutcomes(path) ==
    LET name == path[Len(path)]
        new_name == get_new_name(name, sr.search_str, sr.replace_str)
        new_path == SubSeq(path, 1, Len(path) - 1) \o new_name
        same == [ok |-> FALSE, dirs |-> dirs, files |-> files]
    IN  IF ~ShouldRename(new_name, name) THEN {same}
        ELSE {same} \cup
             {[ok |-> TRUE, dirs |-> Renamed(path, new_path).dirs,
               files |-> Renamed(path, new_path).files] :
                 x \in {y \in {TRUE} : ~RenameRaises(path, new_path, sr.posix)}}

NoSrStats == [files_content_modified |-> 0, files_renamed |-> 0, dirs_renamed |-> 0]

NoSr ==
    [pc |-> "off", root_path |-> <<>>, search_str |-> <<>>, replace_str |-> <<>>,
     posix |-> TRUE, all_paths |-> <<>>, i |-> 0, stats |-> NoSrStats,
     text |-> <<>>, skipped |-> {}]

\* string_replacer.py 80-105: the paths are collected
SrCollect ==
    /\ prog = "string_replacer"
    /\ sr.pc = "start"
    /\ IF ~Exists(sr.root_path)
       THEN sr' = [sr EXCEPT !.pc = "returned"]
       ELSE IF sr.root_path \in DOMAIN files
       THEN sr' = [sr EXCEPT !.pc = "process", !.all_paths = <<sr.root_path>>, !.i = 1]
       ELSE \E w \in Walk(sr.root_path) :
              sr' = [sr EXCEPT !.pc = "process",
                               !.all_paths = SubSeq(w, 1, Len(w) - 1), !.i = 1]
    /\ UNCHANGED <<prog, tree0, dateVars, fsVars, runVars>>

\* string_replacer.py 113-140 and 46-70: one turn of the loop over all_paths;
\* a file of the model is a text file that can be read and written
SrProcess ==
    /\ prog = "string_replacer"
    /\ sr.pc = "process"
    /\ sr.i <= Len(sr.all_paths)
    /\ LET path == sr.all_paths[sr.i]
       IN  IF path \in DOMAIN files
           THEN LET id == files[path]
                    modified == Contains(sr.text[id], sr.search_str)
                IN  \E o \in RenameOutcomes(path) :
                      /\ dirs' = o.dirs /\ files' = o.files
                      /\ sr' = [sr EXCEPT
                            !.i = @ + 1,
                            !.text[id] = StrReplace(@, sr.search_str, sr.replace_str),
                            !.stats.files_content_modified =
                                IF modified THEN @ + 1 ELSE @,
                            !.stats.files_renamed = IF o.ok THEN @ + 1 ELSE @]
           ELSE IF path \in dirs
           THEN \E o \in RenameOutcomes(path) :
                  /\ dirs' = o.dirs /\ files' = o.files
                  /\ sr' = [sr EXCEPT !.i = @ + 1,
                                      !.stats.dirs_renamed = IF o.ok THEN @ + 1 ELSE @]
           ELSE /\ sr' = [sr EXCEPT !.i = @ + 1, !.skipped = @ \cup {path}]
                /\ UNCHANGED <<dirs, files>>
    /\ UNCHANGED <<prog, tree0, dateVars, removed, runVars>>

\* string_replacer.py 143-160: the root directory is renamed, the summary
\* is printed
SrRoot ==
    /\ prog = "string_replacer"
    /\ sr.pc = "process"
    /\ sr.i > Len(sr.all_paths)
    /\ IF sr.root_path \in dirs
       THEN \E o \in RenameOutcomes(sr.root_path) :
              /\ dirs' = o.dirs /\ files' = o.files
              /\ sr' = [sr EXCEPT !.pc = "done",
                                  !.stats.dirs_renamed = IF o.ok THEN @ + 1 ELSE @]
       ELSE /\ sr' = [sr EXCEPT !.pc = "done"]
            /\ UNCHANGED <<dirs, files>>
    /\ UNCHANGED <<prog, tree0, dateVars, removed, runVars>>

process_directory == SrCollect \/ SrProcess \/ SrRoot

----------------------------------------------------------------------------
(* The destination tree before the run                                     *)

Dir2024 == DatePath(Root, D_2024)

\* photo.jpg, photo_1.jpg, ..., photo_n.jpg
Chain(n) == {N_photo} \cup {Suffixed(S_photo, k, S_jpg) : k \in 1..n}

\* files that were there before the run; a content is named by the path
\* the file had when the run began
Old(paths) == [x \in paths |-> x]

Trees ==
    \* nothing there, or the root is a file
    {[dirs |-> {}, files |-> NoFiles],
     [dirs |-> {}, files |-> Old({Root})],
     \* a year or a day that is a file
     [dirs |-> Prefixes(Root), files |-> Old({SubSeq(Dir2024, 1, 2)})],
     [dirs |-> Prefixes(SubSeq(Dir2024, 1, 3)), files |-> Old({Dir2024})],
     \* a directory named like the photo
     [dirs |-> Prefixes(Dir2024 \o <<N_photo>>), files |-> NoFiles]}
    \cup
    \* the day's directory holding some of the chain's names
    {[dirs |-> Prefixes(Dir2024), files |-> Old({Dir2024 \o <<n>> : n \in E})] :
        E \in SUBSET Chain(CollisionBound)}

RunInit(ps, q) ==
    /\ prog = "photosorter"
    /\ dfile = NoFile.meta /\ dres = NoRes
    /\ args \in [copy_files : BOOLEAN, dry_run : BOOLEAN]
    /\ srcExists \in BOOLEAN
    /\ \E t \in Trees : dirs = t.dirs /\ files = t.files
    /\ tree0 = [dirs |-> dirs, files |-> files]
    /\ removed = {}
    /\ lock = {}
    /\ quota = [p \in Procs |-> IF p \in ps THEN q ELSE 0]
    /\ loc = [p \in Procs |-> Idle(IF p \in ps THEN "start" ELSE "off", "")]
    /\ stats = [p \in Procs |-> NoStats]
    /\ routed = {}
    /\ unsupported = [p \in Procs |-> 0]
    /\ decided = {}
    /\ sr = NoSr

\* the folder to organize: some of OrgNames, and an Images folder that is not
\* there or holds some of the chain's names, or a directory named like the photo
OrgTrees ==
    {[dirs |-> Prefixes(Base) \cup sub.dirs,
      files |-> Old({Base \o <<n>> : n \in E} \cup sub.files)] :
        E \in SUBSET OrgNames,
        sub \in {[dirs |-> {}, files |-> {}],
                 [dirs |-> Prefixes(Base \o <<C_Images, N_photo>>), files |-> {}]}
                \cup {[dirs |-> {Base \o <<C_Images>>},
                       files |-> {Base \o <<C_Images, n>> : n \in F}] :
                            F \in SUBSET Chain(CollisionBound)}}

OrgInit ==
    /\ prog = "organize_files"
    /\ dfile = NoFile.meta /\ dres = NoRes
    /\ args = [copy_files |-> FALSE, dry_run |-> FALSE]
    /\ srcExists = TRUE
    /\ \E t \in OrgTrees : dirs = t.dirs /\ files = t.files
    /\ tree0 = [dirs |-> dirs, files |-> files]
    /\ removed = {}
    /\ lock = {}
    /\ quota = [p \in Procs |-> 0]
    /\ loc = [p \in Procs |-> Idle(IF p = 1 THEN "start" ELSE "off", "")]
    /\ stats = [p \in Procs |-> NoStats]
    /\ routed = {}
    /\ unsupported = [p \in Procs |-> 0]
    /\ decided = {}
    /\ sr = NoSr

Init ==
    /\ locking = FALSE
    /\ RunInit({1}, MaxFiles) \/ OrgInit

Next == organize_photos(1) \/ organize_folder(1)

Spec == Init /\ [][Next]_vars

----------------------------------------------------------------------------
(* Two runs of organize_photos at once over one destination tree, with and *)
(* without the per-directory lock that spec section 5 asks callers to take *)

ConcInit ==
    /\ locking \in BOOLEAN
    /\ RunInit({1, 2}, 1)       \* each run routes one file
    /\ srcExists

ConcNext == \E p \in Procs : organize_photos(p)

SpecConc == ConcInit /\ [][ConcNext]_vars

\* the loops are executed: a run that can take a step of a loop takes one
SpecFair == Spec /\ WF_vars(Probe(1)) /\ WF_vars(OrgProbe(1))

----------------------------------------------------------------------------
(* Properties of date resolution                                           *)

\* both readers read the file's metadata
Readable(f) == f.pil = "ok" /\ f.er = "ok"

\* C2: a file whose metadata both readers read and whose DateTimeOriginal
\* parses resolves to that date, tagged EXIF, whatever its modification time.
C2_CaptureTimeWins ==
    (dres # NoRes /\ Readable(dfile) /\ Parseable(dfile.dto)) =>
        dres = [kind |-> "return", date |-> strptime(dfile.dto), source |-> "EXIF"]

\* C3: with DateTimeOriginal and DateTime both present and parseable the
\* date get_exif_date returns is DateTimeOriginal's, whichever of the two
\* the reader enumerates first (so DateTime's value, when it differs, is
\* returned only if DateTimeOriginal is absent).
C3_PreferenceOrder ==
    (dres # NoRes /\ Readable(dfile) /\ Parseable(dfile.dto) /\ Parseable(dfile.dt)) =>
        /\ get_exif_date(dfile) = Returned(strptime(dfile.dto))
        /\ dres.source = "EXIF" /\ dres.date = strptime(dfile.dto)

\* no reader reads the metadata, or no date field that is present parses
NoUsableDate(f) ==
    \/ f.pil # "ok" /\ f.er # "ok"
    \/ \A v \in {f.dto, f.dt} \ {NoVal} : ~Parseable(v)

\* C4: a file with no usable metadata date makes get_exif_date return None
\* without raising, and get_photo_date returns the modification time tagged
\* 'File Modified' (it raises only when the modification time cannot be read).
C4_FallbackToMtime ==
    (dres # NoRes /\ NoUsableDate(dfile)) =>
        /\ get_exif_date(dfile) = Nothing
        /\ dres.source # "metadata"
        /\ dfile.mtime.ok =>
              dres = [kind |-> "return", date |-> dfile.mtime.date,
                      source |-> "File Modified"]
        /\ ~dfile.mtime.ok => (dres.kind = "raise" /\ dres.source = "mtime")

\* a reader raised, a date field did not parse, and the modification time
\* was returned
C4_Witness ==
    /\ dres = [kind |-> "return", date |-> D_1999, source |-> "File Modified"]
    /\ dfile.pil = "error" /\ dfile.er = "ok"
    /\ dfile.dto = V_Zero /\ dfile.dt = V_Feb30

----------------------------------------------------------------------------
(* Properties                                                              *)

\* x is an entry of the directory dir
InDir(x, dir) == Len(x) = Len(dir) + 1 /\ SubSeq(x, 1, Len(dir)) = dir

N_photo_1 == <<"p","h","o","t","o","_","1",".","j","p","g">>
N_photo_2 == <<"p","h","o","t","o","_","2",".","j","p","g">>

\* C1: when the probing loop of photosorter or of move_file_safely has ended,
\* the destination does not exist; it is dir/name when dir/name does not
\* exist, and otherwise dir/stem_k.ext for the k >= 1 such that every
\* stem_j.ext with 1 <= j < k exists.
C1_SmallestFreeName ==
    \A p \in Procs : loc[p].pc \in {"transfer", "o_move"} =>
        LET dir == loc[p].date_folder
            name == loc[p].cur.name
            dest == loc[p].dest_file_path
            NameK(k) == Suffixed(Stem(name), k, Suffix(name))
        IN  /\ ~Exists(dest)
            /\ ~Exists(dir \o <<name>>) => dest = dir \o <<name>>
            /\ Exists(dir \o <<name>>) =>
                 \E k \in 1..(Cardinality(dirs) + Cardinality(DOMAIN files) + 1) :
                    /\ dest = dir \o <<NameK(k)>>
                    /\ \A j \in 1..(k - 1) : Exists(dir \o <<NameK(j)>>)

\* photo.jpg and photo_1.jpg exist and the loop has ended at photo_2.jpg
C1_Witness ==
    /\ loc[1].pc = "transfer"
    /\ Exists(Dir2024 \o <<N_photo>>) /\ Exists(Dir2024 \o <<N_photo_1>>)
    /\ loc[1].dest_file_path = Dir2024 \o <<N_photo_2>>

\* photo_k.jpg, written out
PhotoK(k) == S_photo \o <<"_", DigitChars[k + 1]>> \o S_jpg

\* the number of the source file a transfer moved or copied
SourceIndex(r) == Num(r.source[3], 1, Len(r.source[3]))

\* C5: when the day's directory held only photo.jpg before the run and every
\* file routed into it is named photo.jpg, the k-th of them is written to
\* photo_k.jpg; after n routings the directory holds n + 1 files with n + 1
\* different contents, photo.jpg and every routed file among them unchanged.
C5_SequentialNames ==
    prog = "photosorter" =>
    LET here == {x \in DOMAIN files : InDir(x, Dir2024)}
        before == {x \in DOMAIN tree0.files : InDir(x, Dir2024)}
        new == {r \in routed : InDir(r.dest, Dir2024)}
        n == Cardinality(new)
    IN  (/\ before = {Dir2024 \o <<N_photo>>}
         /\ \A d \in tree0.dirs : ~InDir(d, Dir2024)
         /\ \A r \in routed : r.source[4] = N_photo)
        => /\ \A r \in new :
                r.dest = Dir2024 \o
                    <<PhotoK(Cardinality({q \in new : SourceIndex(q) <= SourceIndex(r)}))>>
           /\ Cardinality(here) = n + 1
           /\ Cardinality({files[x] : x \in here}) = n + 1
           /\ files[Dir2024 \o <<N_photo>>] = tree0.files[Dir2024 \o <<N_photo>>]
           /\ \A r \in new : files[r.dest] = r.source

\* two more photo.jpg have been routed next to the first
C5_Witness ==
    /\ prog = "photosorter"
    /\ {x \in DOMAIN tree0.files : InDir(x, Dir2024)} = {Dir2024 \o <<N_photo>>}
    /\ \A r \in routed : r.source[4] = N_photo
    /\ Cardinality(routed) = 2
    /\ Dir2024 \o <<N_photo_2>> \in DOMAIN files

Out_2023_11_05 == <<<<"o","u","t">>, <<"2","0","2","3">>, <<"1","1">>, <<"0","5">>>>

\* C8: the dated directory is root/YYYY/MM/DD, with four, two and two digits
\* that read as the year, month and day of the resolved date; when no entry
\* of the file's name is there, the destination is that directory / the
\* name, no suffix tried; IMG_01.JPG of 2023-11-05 08:30:00 (EXIF) goes to
\* out/2023/11/05/IMG_01.JPG.
C8_Layout ==
    \A p \in Procs : (prog = "photosorter" /\ loc[p].pc \in {"probe", "transfer"}) =>
        LET folder == loc[p].date_folder
            date == loc[p].photo_date
            name == loc[p].cur.name
        IN  /\ date = get_photo_date(loc[p].cur.meta).date
            /\ Len(folder) = Len(Root) + 3 /\ SubSeq(folder, 1, Len(Root)) = Root
            /\ Len(folder[2]) = 4 /\ Len(folder[3]) = 2 /\ Len(folder[4]) = 2
            /\ \A i \in 2..4 : \A j \in 1..Len(folder[i]) : IsDigit(folder[i][j])
            /\ Num(folder[2], 1, 4) = date.y
            /\ Num(folder[3], 1, 2) = date.mo
            /\ Num(folder[4], 1, 2) = date.d
            /\ (loc[p].pc = "transfer" /\ ~Exists(folder \o <<name>>)) =>
                    /\ loc[p].dest_file_path = folder \o <<name>>
                    /\ loc[p].counter = 1
            /\ (/\ loc[p].pc = "transfer" /\ name = N_img /\ date = D_2023
                /\ ~Exists(Out_2023_11_05 \o <<N_img>>)) =>
                    loc[p].dest_file_path = Out_2023_11_05 \o <<N_img>>

\* the spec's end-to-end example: nothing under out before the run
C8_Witness ==
    /\ tree0.files = NoFiles /\ tree0.dirs = {}
    /\ loc[1].pc = "transfer" /\ loc[1].date_source = "EXIF"
    /\ loc[1].cur.name = N_img /\ loc[1].photo_date = D_2023
    /\ loc[1].counter = 1
    /\ loc[1].dest_file_path = Out_2023_11_05 \o <<N_img>>

\* C6 as claimed: probing stops at the bound: with stem_1 ... stem_N taken
\* no name beyond stem_N is tried (the counter, one more than the suffix
\* last tried, stays within N + 1).
C6_ProbingStopsAtBound ==
    \A p \in Procs : loc[p].counter <= CollisionBound + 1

\* C6, amended: the probing loop ends for every directory, and it has no
\* bound: when the name and stem_1 ... stem_N are all taken it goes on to
\* stem_(N+1), ... and ends at the first free name, without an error.
C6_EndsWithoutBound ==
    /\ [](\A p \in Procs : loc[p].pc \in {"transfer", "o_move"} =>
            LET dir == loc[p].date_folder
                name == loc[p].cur.name
                taken == \A k \in 1..CollisionBound :
                            Exists(dir \o <<Suffixed(Stem(name), k, Suffix(name))>>)
            IN  (Exists(dir \o <<name>>) /\ taken) =>
                    /\ loc[p].counter > CollisionBound + 1
                    /\ loc[p].err = ""
                    /\ loc[p].dest_file_path =
                         dir \o <<Suffixed(Stem(name), loc[p].counter - 1, Suffix(name))>>)
    /\ \A p \in Procs :
         (loc[p].pc \in {"probe", "o_probe"}) ~> (loc[p].pc \notin {"probe", "o_probe"})

\* photo.jpg and photo_1.jpg ... photo_N.jpg were taken: the loop has ended
\* at photo_(N+1).jpg
C6_Witness ==
    /\ loc[1].pc = "transfer"
    /\ \A n \in Chain(CollisionBound) : Exists(Dir2024 \o <<n>>)
    /\ loc[1].counter = CollisionBound + 2
    /\ loc[1].dest_file_path =
         Dir2024 \o <<Suffixed(S_photo, CollisionBound + 1, S_jpg)>>

\* C7: with the lock taken, two concurrent runs never end at the same
\* destination, every routed file lies where it was routed, and every file
\* that was there before is untouched.
C7_LockedRoutingsDistinct ==
    locking =>
        /\ \A r1, r2 \in routed : r1.dest = r2.dest => r1 = r2
        /\ \A r \in routed : r.dest \in DOMAIN files /\ files[r.dest] = r.source
        /\ \A x \in DOMAIN tree0.files :
                x \in DOMAIN files /\ files[x] = tree0.files[x]

\* with the lock, two files named photo.jpg went into the same directory
C7_Witness ==
    /\ locking
    /\ Cardinality(routed) = 2
    /\ \A r \in routed : r.source[4] = N_photo /\ InDir(r.dest, Dir2024)
    /\ Dir2024 \o <<N_photo>> \in DOMAIN tree0.files

\* C7, the source as it is (no lock): this does not hold; a state is
\* reached where two files were routed to one destination
C7_NoRaceWithoutLock ==
    ~locking => \A r1, r2 \in routed : r1.dest = r2.dest => r1 = r2

\* C9: a call of create_date_path that returns leaves root/YYYY/MM/DD
\* existing and returns it; a call for a directory that is already there
\* returns too and changes nothing; a call whose path has a non-directory
\* component raises.
C9_CreateDatePathIdempotent ==
    [][\A p \in Procs : (loc[p].pc = "mkdir" /\ loc'[p].pc # "mkdir") =>
          LET path == DatePath(Root, loc[p].photo_date)
          IN  /\ loc'[p].pc = "probe" =>
                    /\ loc'[p].date_folder = path
                    /\ Prefixes(path) \subseteq dirs'
              /\ path \in dirs =>
                    (loc'[p].pc = "probe" /\ dirs' = dirs /\ files' = files)
              /\ (\E q \in Prefixes(path) : q \in DOMAIN files) =>
                    (loc'[p].pc = "loop" /\ loc'[p].err = "mkdir" /\ dirs' = dirs)
      ]_vars

\* the second of two files of 2023-11-05: the first call made the directory
C9_Witness ==
    /\ Out_2023_11_05 \notin tree0.dirs
    /\ \E r \in routed : InDir(r.dest, Out_2023_11_05)
    /\ loc[1].pc = "probe" /\ loc[1].date_folder = Out_2023_11_05

\* C10: a step of routing a file either raises nothing, or ends that file:
\* errors grows by one, processed does not, and the run is back at the loop
\* for the next file.
C10_ErrorIsolation ==
    [][\A p \in Procs :
          (/\ prog = "photosorter"
           /\ loc[p].pc \in {"date", "mkdir", "probe", "transfer"}
           /\ loc'[p] # loc[p]) =>
              \/ /\ loc'[p].err = ""
                 /\ stats'[p].errors = stats[p].errors
                 /\ loc'[p].pc \in {"mkdir", "probe", "transfer", "loop"}
              \/ /\ loc'[p].err \in {"mtime", "mkdir", "exists", "transfer"}
                 /\ stats'[p].errors = stats[p].errors + 1
                 /\ stats'[p].processed = stats[p].processed
                 /\ stats'[p].total_files = stats[p].total_files
                 /\ loc'[p].pc = "loop"
      ]_vars

\* the first file ended in an error and the second has been routed
C10_Witness ==
    /\ stats[1].errors = 1 /\ stats[1].processed = 1
    /\ \E r \in routed : SourceIndex(r) = 2

\* C11: a dry run leaves the filesystem as it was before the run: no file is
\* moved or copied and no directory is created, under the source and under
\* the destination root.
C11_DryRunChangesNothing ==
    (prog = "photosorter" /\ args.dry_run) =>
        /\ dirs = tree0.dirs
        /\ files = tree0.files
        /\ removed = {}

\* C12: routing is deterministic: two routings of the same file (name,
\* metadata, modification time) made while the destination directory held
\* the same names end in the same destination path and the same date source.
C12_RoutingDeterministic ==
    \A d1, d2 \in decided :
        (d1.file = d2.file /\ d1.taken = d2.taken) =>
            (d1.dest = d2.dest /\ d1.date_source = d2.date_source)

\* a dry run has routed photo.jpg twice while the day's directory held
\* photo.jpg: both routings were decided, against the same names
C12_Witness ==
    /\ prog = "photosorter" /\ args.dry_run
    /\ stats[1].processed = 2
    /\ \E d \in decided :
         /\ d.file.name = N_photo
         /\ Dir2024 \o <<N_photo>> \in d.taken
         /\ d.dest = Dir2024 \o <<N_photo_1>>
    /\ \A d1, d2 \in decided : d1.file = d2.file /\ d1.taken = d2.taken

\* C14: when a run of organize_photos has ended, total_files = processed +
\* errors + the number of unsupported files it met, so that the printed
\* "Files skipped (unsupported)" is the number of unsupported files, and
\* processed <= exif_used + file_date_used <= processed + errors.
C14_StatsConsistent ==
    \A p \in Procs :
        (prog = "photosorter" /\ loc[p].pc = "done") =>
            LET st == stats[p]
                printed_skipped == st.total_files - st.processed - st.errors
            IN  /\ st.total_files = st.processed + st.errors + unsupported[p]
                /\ printed_skipped = unsupported[p]
                /\ st.processed <= st.exif_used + st.file_date_used
                /\ st.exif_used + st.file_date_used <= st.processed + st.errors

\* a run has ended after an unsupported file and a file whose date was
\* resolved and whose routing then failed
C14_Witness ==
    /\ prog = "photosorter" /\ loc[1].pc = "done"
    /\ unsupported[1] = 1
    /\ stats[1].errors = 1
    /\ stats[1].exif_used + stats[1].file_date_used = 1
    /\ stats[1].processed = 0

----------------------------------------------------------------------------
(* Date resolution on its own: get_photo_date applied to one file          *)

DateInit ==
    /\ prog = "resolveDate"
    /\ dfile \in Metas
    /\ dres = NoRes
    /\ args = [copy_files |-> FALSE, dry_run |-> FALSE]
    /\ locking = FALSE /\ srcExists = TRUE
    /\ dirs = {} /\ files = NoFiles /\ removed = {} /\ lock = {}
    /\ tree0 = [dirs |-> dirs, files |-> files]
    /\ quota = [p \in Procs |-> 0]
    /\ loc = [p \in Procs |-> Idle("off", "")]
    /\ stats = [p \in Procs |-> NoStats]
    /\ routed = {}
    /\ unsupported = [p \in Procs |-> 0]
    /\ decided = {}
    /\ sr = NoSr

ResolveDate ==
    /\ prog = "resolveDate"
    /\ dres = NoRes
    /\ dres' = get_photo_date(dfile)
    /\ UNCHANGED <<prog, sr, tree0, dfile, fsVars, runVars>>

SpecDate == DateInit /\ [][ResolveDate]_vars

----------------------------------------------------------------------------
(* string_replacer on its own: process_directory applied to one tree       *)

MaxEntries == 3

\* the root is <<"w">>/a or <<"w">>/ab
SrRoots == {<< <<"w">>, n >> : n \in {N_a, N_ab}}

\* the search and replace strings of a run
SrPairs == {<<N_a, N_b>>, <<N_b, <<>>>>, <<N_ab, N_a>>, <<N_a, N_ab>>}

\* the entries a root may hold: a, b, ab, and a or b inside a sub-directory
SrUniverse(root) ==
    LET top == {root \o <<n>> : n \in {N_a, N_b, N_ab}}
    IN  top \cup {x \o <<n>> : x \in top, n \in {N_a, N_b}}

\* the trees: no root, a root that is a file, or a root directory holding at
\* most MaxEntries files and directories
SrTrees(root) ==
    {[dirs |-> {}, files |-> NoFiles], [dirs |-> {}, files |-> Old({root})]}
    \cup
    UNION {{[dirs |-> {root} \cup D, files |-> Old(E \ D)] :
              D \in {X \in SUBSET E :
                       \A x \in E : Len(x) = Len(root) + 2 =>
                                      SubSeq(x, 1, Len(x) - 1) \in X}} :
           E \in {Y \in SUBSET SrUniverse(root) : Cardinality(Y) <= MaxEntries}}

SrInit ==
    /\ prog = "string_replacer"
    /\ dfile = NoFile.meta /\ dres = NoRes
    /\ args = [copy_files |-> FALSE, dry_run |-> FALSE]
    /\ locking = FALSE /\ srcExists = TRUE
    /\ removed = {} /\ lock = {}
    /\ quota = [p \in Procs |-> 0]
    /\ loc = [p \in Procs |-> Idle("off", "")]
    /\ stats = [p \in Procs |-> NoStats]
    /\ routed = {}
    /\ unsupported = [p \in Procs |-> 0]
    /\ decided = {}
    /\ \E root \in SrRoots, pair \in SrPairs, posix \in BOOLEAN :
         /\ \E t \in SrTrees(root) : dirs = t.dirs /\ files = t.files
         /\ sr = [NoSr EXCEPT !.pc = "start", !.root_path = root,
                              !.search_str = pair[1], !.replace_str = pair[2],
                              !.posix = posix,
                              !.text = [x \in DOMAIN files |-> x[Len(x)]]]
    /\ tree0 = [dirs |-> dirs, files |-> files]

SpecReplace == SrInit /\ [][process_directory]_vars

\* C13: process_directory works bottom-up: everything below the root is
\* collected, a file or sub-directory before the directory that contains it;
\* while paths are left to process the root still has its name, every path
\* not yet processed still exists under its collected name, as the file or
\* directory it was collected as; no collected path is found gone.
C13_BottomUp ==
    (prog = "string_replacer" /\ sr.pc \in {"process", "done"}
        /\ sr.root_path \in tree0.dirs) =>
        LET ap == sr.all_paths
        IN  /\ {ap[i] : i \in 1..Len(ap)} =
                   (tree0.dirs \cup DOMAIN tree0.files) \ {sr.root_path}
            /\ \A i, j \in 1..Len(ap) : (i # j /\ Under(ap[i], ap[j])) => i < j
            /\ sr.pc = "process" =>
                 /\ sr.root_path \in dirs
                 /\ \A j \in sr.i..Len(ap) :
                      /\ Exists(ap[j])
                      /\ ap[j] \in dirs <=> ap[j] \in tree0.dirs
            /\ sr.skipped = {}

\* a run has ended that renamed a file inside a sub-directory, then that
\* sub-directory, then the root, each name holding the search string
C13_Witness ==
    /\ prog = "string_replacer" /\ sr.pc = "done"
    /\ \E x \in DOMAIN tree0.files :
         /\ Len(x) = Len(sr.root_path) + 2
         /\ \A k \in 2..Len(x) : Contains(x[k], sr.search_str)
         /\ x \notin DOMAIN files
    /\ sr.stats.files_renamed >= 1
    /\ sr.stats.dirs_renamed = 2
    /\ sr.skipped = {}

\* C15: no rename of process_directory destroys a file: every file the tree
\* held before the run is still there, under its name or a new one, so the
\* number of files is what it was.
C15_NoFileDestroyed ==
    prog = "string_replacer" =>
        /\ \A id \in DOMAIN tree0.files : \E x \in DOMAIN files : files[x] = id
        /\ Cardinality(DOMAIN files) = Cardinality(DOMAIN tree0.files)

====
